---------------------------- MODULE Spec2Model ----------------------------
(***************************************************************************)
(* A model of smbc-daily: the acquisition pipeline of src/scraper.py       *)
(* (fetch, extract, sanitize, download, archive) and the summary generator *)
(* of src/update_readme.py.                                                *)
(*                                                                         *)
(* A Python str is modelled as a sequence of one-character strings, so     *)
(* that every string operation of the code (strip, split, startswith,      *)
(* replace, join) is computed character by character as Python computes    *)
(* it.  None is the empty tuple <<>> and a present value v is <<v>>.       *)
(***************************************************************************)
EXTENDS Integers, Sequences, FiniteSets, TLC

VARIABLES
    pc,          \* position of the acquisition process (main / get_current_comic)
    today,       \* the calendar day datetime.now() reports
    runs,        \* number of acquisition runs started so far
    cwd,         \* the process working directory set by os.chdir
    dirs,        \* the directories that exist, as <<root, name>>
    files,       \* the files that exist: <<root, dir, filename>> -> content
    soup,        \* local of get_current_comic: the fetched document or None
    comic_data,  \* local of get_current_comic: the extracted record or None
    image_data,  \* local of get_current_comic: the downloaded bytes or None
    stages,      \* the stages this run has performed, with their outcome
    written,     \* the paths this run has opened for writing
    result,      \* the value get_current_comic returned, <<>> while running
    readme,      \* content of README.md at the project root
    comic_info,  \* local of update_readme: what get_most_recent_comic returned
    summary,     \* what the last update_readme call did since the last run
    fn,          \* the pure function applied (specifications of pure functions)
    arg,         \* its input
    out          \* its output

vars == <<pc, today, runs, cwd, dirs, files, soup, comic_data, image_data,
          stages, written, result, readme, comic_info, summary, fn, arg, out>>

pipelineVars == <<pc, today, runs, cwd, dirs, files, soup, comic_data,
                  image_data, stages, written, result, readme, comic_info,
                  summary>>

pureVars == <<fn, arg, out>>

(***************************************************************************)
(* Bounds of the model.                                                    *)
(***************************************************************************)
MaxNameLen == 3     \* longest title given to sanitize_filename
MaxUrlLen == 5      \* longest URL given to get_file_extension
MaxFieldLen == 2    \* longest date / hover text written to a metadata file
MaxDay == 2         \* number of calendar days the acquisition runs span
MaxRuns == 2        \* number of acquisition runs

None == <<>>
Some(v) == <<v>>

(***************************************************************************)
(* Python str primitives.                                                  *)
(***************************************************************************)
Whitespace == {" ", "\n", "\t", "\r"}

\* All strings over alphabet A of length at most n.
StringsUpTo(A, n) == UNION {[1..k -> A] : k \in 0..n}

\* s[i:] with a 1-based first index.
DropUntil(s, i) == SubSeq(s, i, Len(s))

\* str.find, 1-based; 0 when c does not occur.
IndexOf(s, c) ==
    IF \E i \in 1..Len(s) : s[i] = c
    THEN CHOOSE i \in 1..Len(s) : s[i] = c /\ \A j \in 1..(i - 1) : s[j] # c
    ELSE 0

\* str.strip(): leading and trailing whitespace removed.
RECURSIVE LStrip(_)
LStrip(s) ==
    IF s # <<>> /\ Head(s) \in Whitespace THEN LStrip(Tail(s)) ELSE s

RECURSIVE RStrip(_)
RStrip(s) ==
    IF s # <<>> /\ s[Len(s)] \in Whitespace
    THEN RStrip(SubSeq(s, 1, Len(s) - 1))
    ELSE s

Strip(s) == RStrip(LStrip(s))

\* str.split(sep): the pieces between the occurrences of sep; never empty.
RECURSIVE Split(_, _)
Split(s, sep) ==
    LET i == IndexOf(s, sep)
    IN  IF i = 0
        THEN <<s>>
        ELSE <<SubSeq(s, 1, i - 1)>> \o Split(DropUntil(s, i + 1), sep)

\* str.split(sep, 1) of a string that contains sep: <<before, after>>.
SplitFirst(s, sep) ==
    LET i == IndexOf(s, sep)
    IN  <<SubSeq(s, 1, i - 1), DropUntil(s, i + 1)>>

\* str.startswith / str.endswith.
StartsWith(s, p) == Len(p) <= Len(s) /\ SubSeq(s, 1, Len(p)) = p

EndsWith(s, p) ==
    Len(p) <= Len(s) /\ SubSeq(s, Len(s) - Len(p) + 1, Len(s)) = p

\* str.replace(c, r) for a one-character c.
RECURSIVE Replace(_, _, _)
Replace(s, c, r) ==
    IF s = <<>> THEN <<>>
    ELSE (IF Head(s) = c THEN r ELSE <<Head(s)>>) \o Replace(Tail(s), c, r)

\* Iterating a text file: each line with its terminating newline, the last
\* one without when the content does not end in a newline.
RECURSIVE Lines(_)
Lines(content) ==
    LET i == IndexOf(content, "\n")
    IN  IF content = <<>> THEN <<>>
        ELSE IF i = 0 THEN <<content>>
        ELSE <<SubSeq(content, 1, i)>> \o Lines(DropUntil(content, i + 1))

(***************************************************************************)
(* scraper.py: sanitize_filename and get_file_extension.                   *)
(***************************************************************************)
\* The blocklist with '.' forgotten.
INVALID_FILENAME_CHARS_NoDot ==
    {"/", "\\", "?", "%", "*", ":", "|", "\"", "<", ">"}

INVALID_FILENAME_CHARS ==
    {"/", "\\", "?", "%", "*", ":", "|", "\"", "<", ">", "."}

\* ''.join(char for char in filename if char not in INVALID_FILENAME_CHARS)
RECURSIVE sanitize_filename(_)
sanitize_filename(filename) ==
    IF filename = <<>> THEN <<>>
    ELSE (IF Head(filename) \in INVALID_FILENAME_CHARS
          THEN <<>>
          ELSE <<Head(filename)>>) \o sanitize_filename(Tail(filename))

\* url.split('.')[0]: the first piece taken instead of the last.
get_file_extension_First(url) == Split(url, ".")[1]

\* url.split('.')[-1]
get_file_extension(url) ==
    LET parts == Split(url, ".") IN parts[Len(parts)]


(***************************************************************************)
(* scraper.py: extract_comic_data.                                         *)
(*                                                                         *)
(* A parsed document is the part of the tree the lookups read:             *)
(*   comic_div  : None, or the div#cc-comicbody with                       *)
(*     img      : None, or its first <img> with the attributes             *)
(*       src, title : None (attribute absent) or the attribute's string;   *)
(*   blog_area  : None, or the div#blogarea with                           *)
(*     news_header  : None, or the div.cc-newsheader with                  *)
(*       a          : None, or the text of its first <a>;                  *)
(*     publish_time : None, or the text of the div.cc-publishtime.         *)
(* BeautifulSoup's find returns None for a missing node and never raises,  *)
(* and a found Tag is always truthy, so the except clause of lines 104-106 *)
(* is not reachable from these lookups.                                    *)
(***************************************************************************)
UNKNOWN == <<"u", "n", "k", "n", "o", "w", "n">>

\* The publish date read only inside the `if news_header:` block.
ExtractDate_Nested(blog_area) ==
    IF blog_area # None /\ blog_area[1].news_header # None
          /\ blog_area[1].publish_time # None
    THEN Strip(blog_area[1].publish_time[1])
    ELSE UNKNOWN

\* Lines 84, 87-92: the title from the news header's first link.
ExtractTitle(blog_area) ==
    IF blog_area # None /\ blog_area[1].news_header # None
          /\ blog_area[1].news_header[1].a # None
    THEN Strip(blog_area[1].news_header[1].a[1])
    ELSE UNKNOWN

\* Lines 85, 87, 94-96: the date from the publish-time element.
ExtractDate(blog_area) ==
    IF blog_area # None /\ blog_area[1].publish_time # None
    THEN Strip(blog_area[1].publish_time[1])
    ELSE UNKNOWN

\* Lines 69-80 and 98-103.
extract_comic_data(doc) ==
    IF doc.comic_div = None THEN None
    ELSE IF doc.comic_div[1].img = None
              \/ doc.comic_div[1].img[1].src = None THEN None
    ELSE Some([image_url  |-> doc.comic_div[1].img[1].src[1],
               title      |-> ExtractTitle(doc.blog_area),
               date       |-> ExtractDate(doc.blog_area),
               hover_text |-> IF doc.comic_div[1].img[1].title = None
                              THEN <<>>
                              ELSE doc.comic_div[1].img[1].title[1]])

(***************************************************************************)
(* The metadata file: written by get_current_comic (scraper.py 203-207),   *)
(* parsed by get_most_recent_comic (update_readme.py 44-50).               *)
(***************************************************************************)
LabelTitle == <<"T", "i", "t", "l", "e">>
LabelDate == <<"D", "a", "t", "e">>
LabelHoverText == <<"H", "o", "v", "e", "r", " ", "T", "e", "x", "t">>
LabelImageURL == <<"I", "m", "a", "g", "e", " ", "U", "R", "L">>

\* One f.write(f"<label>: {value}\n").
MetadataLine(label, value) == label \o <<":", " ">> \o value \o <<"\n">>

\* The four writes, in order.
MetadataText(cd) ==
    MetadataLine(LabelTitle, cd.title)
        \o MetadataLine(LabelDate, cd.date)
        \o MetadataLine(LabelHoverText, cd.hover_text)
        \o MetadataLine(LabelImageURL, cd.image_url)

\* A dict, as a function from its keys; {} is the function of empty domain.
EmptyDict == [k \in {} |-> <<>>]

DictPut(d, key, value) ==
    [k \in DOMAIN d \cup {key} |-> IF k = key THEN value ELSE d[k]]

\* dict.get(key, default)
DictGet(d, key, default) == IF key \in DOMAIN d THEN d[key] ELSE default

\* if ':' in line: key, value = line.split(':', 1); metadata[key.strip()] = value.strip()
ParseLine(metadata, line) ==
    IF IndexOf(line, ":") # 0
    THEN DictPut(metadata, Strip(SplitFirst(line, ":")[1]),
                 Strip(SplitFirst(line, ":")[2]))
    ELSE metadata

RECURSIVE ParseLines(_, _)
ParseLines(lines, metadata) ==
    IF lines = <<>> THEN metadata
    ELSE ParseLines(Tail(lines), ParseLine(metadata, Head(lines)))

\* for line in f: ... over the whole file, starting from metadata = {}.
ParseMetadata(content) == ParseLines(Lines(content), EmptyDict)

(***************************************************************************)
(* The file system.  A directory is <<root, name>>, the root itself being  *)
(* <<root, <<>>>>; a file is <<root, dir, filename>> (dir = <<>> for an    *)
(* entry directly under the root) and `files` maps it to its content.      *)
(***************************************************************************)
ARCHIVE == <<"a", "r", "c", "h", "i", "v", "e">>
DATA == <<"d", "a", "t", "a">>
SMBC_COMIC == <<"s", "m", "b", "c", "_", "c", "o", "m", "i", "c">>
METADATA_SUFFIX == <<"_", "m", "e", "t", "a", "d", "a", "t", "a", ".", "t", "x", "t">>
PNG_SUFFIX == <<".", "p", "n", "g">>
HTTPS == <<"h", "t", "t", "p", "s", ":">>
PERCENT20 == <<"%", "2", "0">>

\* datetime.now().strftime("%Y-%m-%d") on the day-th day of the model,
\* the first being 2024-03-01 (day stays below 10).
DateName(day) ==
    <<"2", "0", "2", "4", "-", "0", "3", "-", "0">> \o <<(<<"1", "2", "3", "4", "5", "6", "7", "8", "9">>)[day]>>

\* open(path, 'w') / open(path, 'wb') followed by a complete write.
WriteFile(fs, path, content) ==
    [p \in DOMAIN fs \cup {path} |-> IF p = path THEN content ELSE fs[p]]

\* A write that fails after open() has created or truncated the file.
TruncateFile(fs, path) == WriteFile(fs, path, <<>>)

\* A failed write that also deletes the file it was writing.
FailedWrite_Unlink(fs, path, opened) ==
    [p \in DOMAIN fs \ {path} |-> fs[p]]

\* The except IOError branches (scraper.py 147-149, 208-210): nothing is
\* undone.  `opened` tells whether open() had succeeded before the error.
FailedWrite(fs, path, opened) ==
    IF opened THEN TruncateFile(fs, path) ELSE fs

\* A relative path that names a file directly in the working directory.
\* With a '/' in it the path leads through a subdirectory, and no step of
\* the program creates one, so open() raises FileNotFoundError (an IOError).
InCwd(filename) == \A i \in 1..Len(filename) : filename[i] # "/"

(***************************************************************************)
(* scraper.py: download_image, and the names get_current_comic builds.     *)
(***************************************************************************)
\* Lines 120-121.
ResolveUrl(image_url) ==
    IF StartsWith(image_url, <<"/", "/">>) THEN HTTPS \o image_url
    ELSE image_url

\* requests.get raises MissingSchema (a RequestException) for a URL with no
\* scheme; every other request may succeed or fail.
HasScheme(url) == IndexOf(url, ":") > 1

\* response.content: the bytes the server holds for the URL.
Payload(url) == <<"#">> \o url

\* Lines 186-187.
BaseFilename(cd) ==
    LET title_str == sanitize_filename(cd.title)
    IN  IF title_str # UNKNOWN THEN title_str ELSE SMBC_COMIC

\* Lines 195-196.
ImagePath(cd) ==
    BaseFilename(cd) \o <<".">> \o get_file_extension(cd.image_url)

\* Line 201.
MetadataPath(cd) == BaseFilename(cd) \o METADATA_SUFFIX

(***************************************************************************)
(* What the site may serve in the runs of the model.                       *)
(***************************************************************************)
UrlPng == <<"/", "/", "c", "/", "t", ".", "p", "n", "g">>
UrlNoDot == <<"/", "/", "c", "/", "t">>

Img(src, title) == Some([img |-> Some([src |-> src, title |-> title])])

Blog(a, publish_time) ==
    Some([news_header |-> Some([a |-> a]), publish_time |-> publish_time])

PipelineDocs ==
    { [comic_div |-> Img(Some(UrlPng), Some(<<"f">>)),
       blog_area |-> Blog(Some(<<" ", "T", " ", "c", ".">>), Some(<<"M">>))],
      [comic_div |-> Img(Some(UrlPng), None), blog_area |-> None],
      [comic_div |-> Img(Some(UrlNoDot), None), blog_area |-> None],
      [comic_div |-> Img(Some(<<>>), None), blog_area |-> None],
      [comic_div |-> None, blog_area |-> None] }

(***************************************************************************)
(* scraper.py: main and get_current_comic, stage by stage.                 *)
(***************************************************************************)
Stage(name, ok) == [name |-> name, ok |-> ok]

Locals == <<soup, comic_data, image_data>>

\* A stage's outcome and the early return that follows a failure.
Proceed(name, ok, next) ==
    /\ stages' = Append(stages, Stage(name, ok))
    /\ IF ok
       THEN pc' = next /\ result' = None
       ELSE pc' = "returned" /\ result' = Some(FALSE)

\* Lines 197-198 without the early return.
SaveImageReturn_Continue(ok) ==
    /\ stages' = Append(stages, Stage("save_image", ok))
    /\ pc' = "save_metadata"
    /\ result' = None

\* Lines 197-198: if not save_image(...): return False
SaveImageReturn(ok) == Proceed("save_image", ok, "save_metadata")

\* Lines 208-213 with the failure falling through to return True.
SaveMetadataReturn_AlwaysTrue(ok) ==
    /\ stages' = Append(stages, Stage("save_metadata", ok))
    /\ pc' = "returned"
    /\ result' = Some(TRUE)

\* Lines 208-213: return False in the except branch, True at the end.
SaveMetadataReturn(ok) ==
    /\ stages' = Append(stages, Stage("save_metadata", ok))
    /\ pc' = "returned"
    /\ result' = Some(ok)

\* main, lines 245-246: setup_daily_directory (os.makedirs with parents,
\* exist_ok=True) and os.chdir; then get_current_comic starts.
MainSetup ==
    /\ pc = "idle"
    /\ runs < MaxRuns
    /\ runs' = runs + 1
    /\ dirs' = dirs \cup {<<ARCHIVE, <<>>>>, <<ARCHIVE, DateName(today)>>}
    /\ cwd' = <<ARCHIVE, DateName(today)>>
    /\ pc' = "fetch"
    /\ soup' = None /\ comic_data' = None /\ image_data' = None
    /\ stages' = <<>>
    /\ written' = {}
    /\ result' = None
    /\ summary' = "none"
    /\ UNCHANGED <<today, files, readme, comic_info, pureVars>>

\* Lines 176-178: fetch_webpage returns the parsed page or None.
Fetch ==
    /\ pc = "fetch"
    /\ \/ /\ soup' = None
          /\ Proceed("fetch", FALSE, "extract")
       \/ \E doc \in PipelineDocs :
             /\ soup' = Some(doc)
             /\ Proceed("fetch", TRUE, "extract")
    /\ UNCHANGED <<today, runs, cwd, dirs, files, comic_data, image_data,
                   written, readme, comic_info, summary, pureVars>>

\* Lines 181-183.
Extract ==
    /\ pc = "extract"
    /\ comic_data' = extract_comic_data(soup[1])
    /\ Proceed("extract", comic_data' # None, "download")
    /\ UNCHANGED <<today, runs, cwd, dirs, files, soup, image_data, written,
                   readme, comic_info, summary, pureVars>>

\* Lines 190-192: download_image returns the bytes or None.
Download ==
    /\ pc = "download"
    /\ LET url == ResolveUrl(comic_data[1].image_url)
       IN  \/ /\ image_data' = None
              /\ Proceed("download", FALSE, "save_image")
           \/ /\ HasScheme(url)
              /\ image_data' = Some(Payload(url))
              /\ Proceed("download", TRUE, "save_image")
    /\ UNCHANGED <<today, runs, cwd, dirs, files, soup, comic_data, written,
                   readme, comic_info, summary, pureVars>>

\* Lines 195-198, with save_image (132-149).
SaveImage ==
    /\ pc = "save_image"
    /\ LET image_path == ImagePath(comic_data[1])
           path == <<cwd[1], cwd[2], image_path>>
       IN  \/ /\ InCwd(image_path)
              /\ files' = WriteFile(files, path, image_data[1])
              /\ written' = written \cup {path}
              /\ SaveImageReturn(TRUE)
           \/ /\ InCwd(image_path)
              /\ files' = FailedWrite(files, path, TRUE)
              /\ written' = written \cup {path}
              /\ SaveImageReturn(FALSE)
           \/ /\ files' = FailedWrite(files, path, FALSE)
              /\ written' = written
              /\ SaveImageReturn(FALSE)
    /\ UNCHANGED <<today, runs, cwd, dirs, Locals, readme, comic_info,
                   summary, pureVars>>

\* Lines 201-213.
SaveMetadata ==
    /\ pc = "save_metadata"
    /\ LET metadata_path == MetadataPath(comic_data[1])
           path == <<cwd[1], cwd[2], metadata_path>>
       IN  \/ /\ InCwd(metadata_path)
              /\ files' = WriteFile(files, path, MetadataText(comic_data[1]))
              /\ written' = written \cup {path}
              /\ SaveMetadataReturn(TRUE)
           \/ /\ InCwd(metadata_path)
              /\ files' = FailedWrite(files, path, TRUE)
              /\ written' = written \cup {path}
              /\ SaveMetadataReturn(FALSE)
           \/ /\ files' = FailedWrite(files, path, FALSE)
              /\ written' = written
              /\ SaveMetadataReturn(FALSE)
    /\ UNCHANGED <<today, runs, cwd, dirs, Locals, readme, comic_info,
                   summary, pureVars>>

\* main, lines 251-256: the status line is printed and the process ends.
MainReport ==
    /\ pc = "returned"
    /\ pc' = "idle"
    /\ UNCHANGED <<today, runs, cwd, dirs, files, Locals, stages, written,
                   result, readme, comic_info, summary, pureVars>>

\* Midnight passes between two invocations.
Tick ==
    /\ pc = "idle"
    /\ today < MaxDay
    /\ today' = today + 1
    /\ UNCHANGED <<pc, runs, cwd, dirs, files, Locals, stages, written,
                   result, readme, comic_info, summary, pureVars>>

(***************************************************************************)
(* update_readme.py: get_most_recent_comic and update_readme.              *)
(***************************************************************************)
\* The printable ASCII characters in code-point order: 32 (space) to 95,
\* and 97 (a) to 126.
ASCII_32_95 ==
    <<" ", "!", "\"", "#", "$", "%", "&", "'",
      "(", ")", "*", "+", ",", "-", ".", "/",
      "0", "1", "2", "3", "4", "5", "6", "7",
      "8", "9", ":", ";", "<", "=", ">", "?",
      "@", "A", "B", "C", "D", "E", "F", "G",
      "H", "I", "J", "K", "L", "M", "N", "O",
      "P", "Q", "R", "S", "T", "U", "V", "W",
      "X", "Y", "Z", "[", "\\", "]", "^", "_">>

ASCII_97_126 ==
    <<"a", "b", "c", "d", "e", "f", "g", "h",
      "i", "j", "k", "l", "m", "n", "o", "p",
      "q", "r", "s", "t", "u", "v", "w", "x",
      "y", "z", "{", "|", "}", "~">>

\* ord(c)
CodePoint(c) ==
    IF IndexOf(ASCII_97_126, c) # 0
    THEN IndexOf(ASCII_97_126, c) + 96
    ELSE IndexOf(ASCII_32_95, c) + 31

\* Python's a < b on str: by code point, a proper prefix being smaller.
RECURSIVE LexLess(_, _)
LexLess(a, b) ==
    IF a = <<>> THEN b # <<>>
    ELSE IF b = <<>> THEN FALSE
    ELSE IF Head(a) = Head(b) THEN LexLess(Tail(a), Tail(b))
    ELSE CodePoint(Head(a)) < CodePoint(Head(b))

\* sorted(names)
RECURSIVE Sorted(_)
Sorted(names) ==
    IF names = {} THEN <<>>
    ELSE LET least == CHOOSE x \in names :
                          \A y \in names : y = x \/ LexLess(x, y)
         IN  <<least>> \o Sorted(names \ {least})

\* sorted(names, reverse=True)
RECURSIVE SortedReverse(_)
SortedReverse(names) ==
    IF names = {} THEN <<>>
    ELSE LET greatest == CHOOSE x \in names :
                             \A y \in names : y = x \/ LexLess(y, x)
         IN  <<greatest>> \o SortedReverse(names \ {greatest})

\* os.listdir(root)
ListDir(root) ==
    {d[2] : d \in {e \in dirs : e[1] = root /\ e[2] # <<>>}}
        \cup {p[3] : p \in {q \in DOMAIN files : q[1] = root /\ q[2] = <<>>}}

\* The directory names sorted without reverse=True.
DateDirs_Ascending ==
    Sorted({d \in ListDir(DATA) : <<DATA, d>> \in dirs})

\* Lines 19-21.
DateDirs ==
    SortedReverse({d \in ListDir(DATA) : <<DATA, d>> \in dirs})

\* glob.glob(os.path.join(dir, '*.png')): the names ending in .png, hidden
\* names (a leading '.') excluded.
GlobPng(dir) ==
    {p[3] : p \in {q \in DOMAIN files :
                      /\ q[1] = DATA /\ q[2] = dir
                      /\ EndsWith(q[3], PNG_SUFFIX)
                      /\ q[3][1] # "."}}

\* Path(image_path).stem of a name ending in .png
Stem(name) == SubSeq(name, 1, Len(name) - Len(PNG_SUFFIX))

\* Lines 43-50.
ReadMetadata(dir, comic_title) ==
    LET metadata_file == <<DATA, dir, comic_title \o METADATA_SUFFIX>>
    IN  IF metadata_file \in DOMAIN files
        THEN ParseMetadata(files[metadata_file])
        ELSE EmptyDict

\* Lines 53-56: the path relative to the project root, spaces encoded.
RelImagePath(dir, name) ==
    Replace(DATA \o <<"/">> \o dir \o <<"/">> \o name, " ", PERCENT20)

\* The values get_most_recent_comic may return: None, or the tuple built
\* from png_files[0], glob's order being the file system's.
get_most_recent_comic ==
    IF <<DATA, <<>>>> \notin dirs THEN {None}
    ELSE IF DateDirs = <<>> THEN {None}
    ELSE LET most_recent_date == DateDirs[1]
             png_files == GlobPng(most_recent_date)
         IN  IF png_files = {} THEN {None}
             ELSE {Some([date       |-> most_recent_date,
                         title      |-> Stem(image),
                         image_path |-> RelImagePath(most_recent_date, image),
                         metadata   |-> ReadMetadata(most_recent_date,
                                                     Stem(image))])
                      : image \in png_files}

\* Lines 77-98: the values substituted into the fixed template; the hover
\* line is present only for a non-empty hover text.
ReadmeContent(info) ==
    LET hover_text == DictGet(info.metadata, LabelHoverText, <<>>)
    IN  [publish_date |-> DictGet(info.metadata, LabelDate, info.date),
         title        |-> info.title,
         image_path   |-> info.image_path,
         hover_line   |-> IF hover_text # <<>> THEN Some(hover_text) ELSE None]

\* Lines 68-102: README.md after the call.
WriteReadme(info) ==
    IF info = None THEN readme ELSE ReadmeContent(info[1])

\* update_readme, a separate invocation between acquisition runs.
UpdateReadme ==
    /\ pc = "idle"
    /\ \E info \in get_most_recent_comic :
          /\ comic_info' = info
          /\ readme' = WriteReadme(info)
          /\ summary' = IF info = None THEN "skipped" ELSE "written"
    /\ UNCHANGED <<pc, today, runs, cwd, dirs, files, Locals, stages,
                   written, result, pureVars>>

(***************************************************************************)
(* The states the program starts from.  README.md holds an earlier         *)
(* summary; the archive/ root is empty; the data/ tree, which no step of   *)
(* the program writes, is whatever the environment has put there.          *)
(***************************************************************************)
OldReadme ==
    [publish_date |-> <<"o", "l", "d">>, title |-> <<"o", "l", "d">>,
     image_path |-> <<"o", "l", "d">>, hover_line |-> None]

DataDirNames == {<<"2", "0", "2", "4", "-", "0", "3", "-", "0", "1">>, <<"2", "0", "2", "4", "-", "0", "3", "-", "0", "2">>}

DataRecord(dir) ==
    [image_url |-> UrlPng, title |-> <<"T">>, date |-> dir,
     hover_text |-> <<" ", "h">>]

\* What a directory of the data/ tree may hold, as <<filename, content>>.
Listing(kind, dir) ==
    CASE kind = "empty" -> {}
      [] kind = "gif" -> {<<<<"T", ".", "g", "i", "f">>, Payload(UrlPng)>>}
      [] kind = "png" -> {<<<<"T", " ", "c", ".", "p", "n", "g">>, Payload(UrlPng)>>}
      [] kind = "png_metadata" ->
            {<<<<"T", ".", "p", "n", "g">>, Payload(UrlPng)>>,
             <<<<"T", "_", "m", "e", "t", "a", "d", "a", "t", "a", ".", "t", "x", "t">>, MetadataText(DataRecord(dir))>>}
      [] kind = "two_png" ->
            {<<<<"T", ".", "p", "n", "g">>, Payload(UrlPng)>>,
             <<<<"U", ".", "p", "n", "g">>, Payload(UrlPng)>>,
             <<<<"T", "_", "m", "e", "t", "a", "d", "a", "t", "a", ".", "t", "x", "t">>, MetadataText(DataRecord(dir))>>}
      [] kind = "hidden_png" -> {<<PNG_SUFFIX, Payload(UrlPng)>>}
      [] OTHER -> {}

ListingKinds == {"absent", "empty", "gif", "png", "png_metadata", "two_png",
     "hidden_png"}

\* A data/ tree: for each directory name what it holds, and whether a
\* plain file named z lies beside the directories.
DataDirsOf(tree) ==
    {<<DATA, <<>>>>}
        \cup {<<DATA, d>> : d \in {e \in DataDirNames : tree.kind[e] # "absent"}}

DataEntriesOf(tree) ==
    UNION {{<<<<DATA, d, fc[1]>>, fc[2]>> : fc \in Listing(tree.kind[d], d)}
              : d \in DataDirNames}
        \cup (IF tree.plain_file THEN {<<<<DATA, <<>>, <<"z">>>>, <<>>>>} ELSE {})

DataFilesOf(tree) ==
    [p \in {e[1] : e \in DataEntriesOf(tree)} |->
        (CHOOSE e \in DataEntriesOf(tree) : e[1] = p)[2]]

DataTrees == [kind : [DataDirNames -> ListingKinds], plain_file : BOOLEAN]

PipelineIdle ==
    /\ pc = "idle"
    /\ today = 1
    /\ runs = 0
    /\ cwd = <<<<>>, <<>>>>
    /\ soup = None /\ comic_data = None /\ image_data = None
    /\ stages = <<>>
    /\ written = {}
    /\ result = None
    /\ readme = OldReadme
    /\ comic_info = None
    /\ summary = "none"

PureIdle == fn = "none" /\ arg = <<>> /\ out = <<>>

NoDataRoot == dirs = {} /\ files = [p \in {} |-> <<>>]

DataTree(tree) == dirs = DataDirsOf(tree) /\ files = DataFilesOf(tree)

\* The data/ trees the acquisition runs are checked beside: none, and one
\* whose latest directory holds an image with its metadata.
PopulatedTree ==
    [kind |-> [d \in DataDirNames |-> "png_metadata"], plain_file |-> FALSE]

Init ==
    /\ PipelineIdle
    /\ PureIdle
    /\ NoDataRoot \/ DataTree(PopulatedTree)

Next ==
    \/ MainSetup
    \/ Fetch
    \/ Extract
    \/ Download
    \/ SaveImage
    \/ SaveMetadata
    \/ MainReport
    \/ Tick
    \/ UpdateReadme

Spec == Init /\ [][Next]_vars

(***************************************************************************)
(* The summary generator alone, beside every data/ tree of the model.      *)
(***************************************************************************)
InitSummary ==
    /\ PipelineIdle
    /\ PureIdle
    /\ NoDataRoot \/ \E tree \in DataTrees : DataTree(tree)

NextSummary == UpdateReadme

SpecSummary == InitSummary /\ [][NextSummary]_vars

(***************************************************************************)
(* The pure functions, each applied to every input of a bounded set.       *)
(***************************************************************************)
Applied(name, value) ==
    /\ fn = "none"
    /\ fn' = name
    /\ out' = value
    /\ UNCHANGED <<arg, pipelineVars>>

\* sanitize_filename on every title over NameAlphabet.
NameAlphabet == {"a", " ", ".", "/", ":"}

InitSanitize ==
    /\ PipelineIdle /\ NoDataRoot
    /\ fn = "none" /\ out = <<>>
    /\ arg \in StringsUpTo(NameAlphabet, MaxNameLen)

SanitizeStep == Applied("sanitize_filename", sanitize_filename(arg))

SpecSanitize == InitSanitize /\ [][SanitizeStep]_vars

\* get_file_extension on every URL over UrlAlphabet.
UrlAlphabet == {"a", ".", "/"}

InitExtension ==
    /\ PipelineIdle /\ NoDataRoot
    /\ fn = "none" /\ out = <<>>
    /\ arg \in StringsUpTo(UrlAlphabet, MaxUrlLen)

ExtensionStep == Applied("get_file_extension", get_file_extension(arg))

SpecExtension == InitExtension /\ [][ExtensionStep]_vars

\* extract_comic_data on every document built from these nodes.
SrcValues == {None, Some(<<>>), Some(UrlPng)}
TitleValues == {None, Some(<<"f">>)}
LinkTexts == {<<"T">>, <<" ", "T", "\n">>}
PublishTexts == {<<"M">>, <<"\n", "M", " ">>}

ImgNodes ==
    {None} \cup {Some([src |-> s, title |-> t]) : s \in SrcValues, t \in TitleValues}

HeaderNodes ==
    {None, Some([a |-> None])} \cup {Some([a |-> Some(t)]) : t \in LinkTexts}

PublishNodes == {None} \cup {Some(t) : t \in PublishTexts}

BlogNodes ==
    {None} \cup {Some([news_header |-> h, publish_time |-> p])
                    : h \in HeaderNodes, p \in PublishNodes}

Documents ==
    [comic_div : {None} \cup {Some([img |-> i]) : i \in ImgNodes},
     blog_area : BlogNodes]

InitExtract ==
    /\ PipelineIdle /\ NoDataRoot
    /\ fn = "none" /\ out = <<>>
    /\ arg \in Documents

ExtractStep == Applied("extract_comic_data", extract_comic_data(arg))

SpecExtract == InitExtract /\ [][ExtractStep]_vars

\* The metadata file written from a record and parsed back.  title and date
\* come from get_text().strip(), so they carry no outer whitespace; the
\* hover text is the img title attribute as it stands.
FieldAlphabet == {"a", " ", ":", "\n"}

Records ==
    [image_url  : {UrlPng},
     title      : {<<"T">>},
     date       : {Strip(t) : t \in StringsUpTo(FieldAlphabet, MaxFieldLen)},
     hover_text : StringsUpTo(FieldAlphabet, MaxFieldLen)]

InitMetadata ==
    /\ PipelineIdle /\ NoDataRoot
    /\ fn = "none" /\ out = <<>>
    /\ arg \in Records

WriteMetadataStep == Applied("written", MetadataText(arg))

ParseMetadataStep ==
    /\ fn = "written"
    /\ fn' = "parsed"
    /\ out' = ParseMetadata(out)
    /\ UNCHANGED <<arg, pipelineVars>>

NextMetadata == WriteMetadataStep \/ ParseMetadataStep

SpecMetadata == InitMetadata /\ [][NextMetadata]_vars

(***************************************************************************)
(*                              The claims                                 *)
(***************************************************************************)
StageOrder ==
    <<"fetch", "extract", "download", "save_image", "save_metadata">>

StageFailed(name) == \E i \in 1..Len(stages) : stages[i] = Stage(name, FALSE)

StageDone(name) == \E i \in 1..Len(stages) : stages[i].name = name

AllSucceeded ==
    Len(stages) = Len(StageOrder) /\ \A i \in 1..Len(stages) : stages[i].ok

\* The files of the run in progress or last finished.
RunImageFile == <<cwd[1], cwd[2], ImagePath(comic_data[1])>>

RunMetadataFile == <<cwd[1], cwd[2], MetadataPath(comic_data[1])>>

\* C1: the stages of get_current_comic run in the order fetch, extract,
\* download, write image, write metadata; no stage follows a failed one and
\* a failure makes the result False; the result is True only when all five
\* succeeded; a run that fails at fetch, extraction or download has opened
\* no file for writing.
C1_ShortCircuit ==
    /\ Len(stages) <= Len(StageOrder)
    /\ \A i \in 1..Len(stages) : stages[i].name = StageOrder[i]
    /\ \A i \in 1..(Len(stages) - 1) : stages[i].ok
    /\ (stages # <<>> /\ ~stages[Len(stages)].ok) => result = Some(FALSE)
    /\ result = Some(FALSE) => (stages # <<>> /\ ~stages[Len(stages)].ok)
    /\ result = Some(TRUE) <=> AllSucceeded
    /\ (result = Some(FALSE) /\ Len(stages) <= 3) => written = {}

\* A run that got a record and then failed at download, writing nothing.
C1_Witness ==
    /\ pc = "returned"
    /\ result = Some(FALSE)
    /\ stages = <<Stage("fetch", TRUE), Stage("extract", TRUE),
                  Stage("download", FALSE)>>
    /\ written = {}

\* C2 as stated: the two writes are independent, so a failed image write
\* does not keep the metadata write from being performed, and a failed
\* metadata write leaves the image file written.
C2_WritesIndependent ==
    /\ (pc = "returned" /\ StageFailed("save_image"))
          => StageDone("save_metadata")
    /\ (pc = "returned" /\ StageFailed("save_metadata"))
          => (RunImageFile \in DOMAIN files
                 /\ files[RunImageFile] = image_data[1])

\* C2 amended: the writes are sequential.  A failed image write ends the
\* run with False before the metadata write is attempted, and the run
\* leaves the metadata file untouched; a failed metadata write leaves the
\* image file the run wrote in place with its full content.
C2_WritesSequential ==
    /\ StageFailed("save_image")
          => /\ ~StageDone("save_metadata")
             /\ RunMetadataFile \notin written
             /\ result = Some(FALSE)
    /\ StageFailed("save_metadata")
          => /\ RunImageFile \in written
             /\ RunImageFile \in DOMAIN files
             /\ files[RunImageFile] = image_data[1]

\* A finished run whose image write failed after open() had created the
\* file: the image file exists, truncated, and no metadata was attempted.
C2_Witness ==
    /\ pc = "returned"
    /\ StageFailed("save_image")
    /\ RunImageFile \in written
    /\ RunMetadataFile \notin DOMAIN files

\* C3: no step of any run removes a file or a directory, and a run whose
\* metadata write fails after its image write succeeded returns False with
\* the image file it wrote still in place.
C3_NothingRemoved ==
    /\ [][/\ DOMAIN files \subseteq DOMAIN files'
          /\ dirs \subseteq dirs']_vars
    /\ [](StageFailed("save_metadata")
             => /\ result = Some(FALSE)
                /\ stages[4] = Stage("save_image", TRUE)
                /\ RunImageFile \in DOMAIN files
                /\ files[RunImageFile] = image_data[1])

\* A second run on a day whose first run had archived the same comic: its
\* metadata write fails, and both files are still there.
C3_Witness ==
    /\ runs = 2
    /\ pc = "returned"
    /\ StageFailed("save_metadata")
    /\ RunImageFile \in DOMAIN files
    /\ RunMetadataFile \in DOMAIN files
    /\ RunMetadataFile \notin written

\* C4 as stated: a record returned by extract_comic_data has a non-empty
\* image_url.
C4_ImageUrlNonEmpty ==
    (fn = "extract_comic_data" /\ out # None) => out[1].image_url # <<>>

\* The document with the news header replaced / the publish time replaced.
WithHeader(doc, h) ==
    [doc EXCEPT !.blog_area =
        Some([news_header |-> h,
              publish_time |-> doc.blog_area[1].publish_time])]

WithPublishTime(doc, p) ==
    [doc EXCEPT !.blog_area =
        Some([news_header |-> doc.blog_area[1].news_header,
              publish_time |-> p])]

HasImageSrc(doc) ==
    /\ doc.comic_div # None
    /\ doc.comic_div[1].img # None
    /\ doc.comic_div[1].img[1].src # None

\* C5: a missing comic-body container gives absent; with the comic body and
\* its image source present and the blog area missing the record has title
\* and date "unknown" and the image's source as image_url; with the blog
\* area present a missing header link gives title "unknown", a missing
\* publish time gives date "unknown", and neither field depends on the
\* other's element.
C5_DegradesIndependently ==
    fn = "extract_comic_data" =>
        /\ arg.comic_div = None => out = None
        /\ (HasImageSrc(arg) /\ arg.blog_area = None)
              => /\ out # None
                 /\ out[1].title = UNKNOWN
                 /\ out[1].date = UNKNOWN
                 /\ out[1].image_url = arg.comic_div[1].img[1].src[1]
        /\ (HasImageSrc(arg) /\ arg.blog_area # None)
              => /\ out # None
                 /\ (arg.blog_area[1].news_header \in {None, Some([a |-> None])}
                        => out[1].title = UNKNOWN)
                 /\ (arg.blog_area[1].publish_time = None
                        => out[1].date = UNKNOWN)
                 /\ \A h \in HeaderNodes :
                       extract_comic_data(WithHeader(arg, h))[1].date
                           = out[1].date
                 /\ \A p \in PublishNodes :
                       extract_comic_data(WithPublishTime(arg, p))[1].title
                           = out[1].title

\* A document with a publish time and no news header: the date is read, the
\* title is "unknown".
C5_Witness ==
    /\ fn = "extract_comic_data"
    /\ HasImageSrc(arg)
    /\ arg.blog_area # None
    /\ arg.blog_area[1].news_header = None
    /\ arg.blog_area[1].publish_time # None
    /\ out[1].title = UNKNOWN
    /\ out[1].date = <<"M">>

\* C6 as stated: parsing the metadata file written from a record gives back
\* the record's date under 'Date' and its hover text under 'Hover Text'.
C6_RoundTrip ==
    fn = "parsed" =>
        /\ LabelDate \in DOMAIN out
        /\ out[LabelDate] = arg.date
        /\ LabelHoverText \in DOMAIN out
        /\ out[LabelHoverText] = arg.hover_text

\* The blocklist as the specification lists it.
BlockedChars == {"/", "\\", "?", "%", "*", ":", "|", "\"", "<", ">", "."}

NotBlocked(c) == c \notin BlockedChars

\* C7: sanitize_filename returns its input with exactly the blocklisted
\* characters removed (none left, every other character kept in order,
\* nothing added), and sanitizing its output again changes nothing.
C7_SanitizeRemovesBlocked ==
    fn = "sanitize_filename" =>
        /\ \A i \in 1..Len(out) : out[i] \notin BlockedChars
        /\ out = SelectSeq(arg, NotBlocked)
        /\ sanitize_filename(out) = out

\* A title that mixes blocked and kept characters.
C7_Witness ==
    /\ fn = "sanitize_filename"
    /\ arg = <<".", "a", ":">>
    /\ out = <<"a">>

\* C8 as stated: once a summary run has followed a successful acquisition
\* run, README.md is rendered from the image and the metadata that run
\* wrote into its date directory under archive/.
C8_SummaryShowsAcquiredComic ==
    (pc = "idle" /\ result = Some(TRUE) /\ summary # "none") =>
        /\ summary = "written"
        /\ readme.title = BaseFilename(comic_data[1])
        /\ readme.image_path =
              Replace(ARCHIVE \o <<"/">> \o cwd[2] \o <<"/">>
                          \o ImagePath(comic_data[1]), " ", PERCENT20)
        /\ readme.publish_date = comic_data[1].date

\* The subdirectories of data/ and the greatest of them, stated directly.
DataSubdirs == {d[2] : d \in {e \in dirs : e[1] = DATA /\ e[2] # <<>>}}

IsGreatest(d) ==
    d \in DataSubdirs /\ \A e \in DataSubdirs : e = d \/ LexLess(e, d)

ScanFails ==
    \/ <<DATA, <<>>>> \notin dirs
    \/ DataSubdirs = {}
    \/ \E d \in DataSubdirs :
          /\ IsGreatest(d)
          /\ \A p \in DOMAIN files :
                (p[1] = DATA /\ p[2] = d) => ~EndsWith(p[3], PNG_SUFFIX)

\* C9: the directory update_readme reads is the subdirectory of data/ whose
\* name is greatest in lexical order, and when the scan fails (no data/
\* root, no subdirectory, or no .png file in that directory) the call
\* leaves README.md as it was.
C9_LatestOrUntouched ==
    summary # "none" =>
        /\ comic_info # None => IsGreatest(comic_info[1].date)
        /\ ScanFails => (comic_info = None /\ readme = OldReadme)
        /\ comic_info = None => readme = OldReadme

\* The latest directory holds no .png while an older one does: the call
\* skips and README.md is untouched.
C9_Witness ==
    /\ summary = "skipped"
    /\ readme = OldReadme
    /\ \E d \in DataSubdirs : IsGreatest(d) /\ GlobPng(d) = {}
    /\ \E d \in DataSubdirs : GlobPng(d) # {}

HasDot(s) == \E i \in 1..Len(s) : s[i] = "."

\* The text after the last '.' of s, s having one.
AfterLastDot(s) ==
    LET i == CHOOSE k \in 1..Len(s) :
                 s[k] = "." /\ \A j \in (k + 1)..Len(s) : s[j] # "."
    IN  DropUntil(s, i + 1)

\* The final path segment: the text after the last '/'.
FinalSegment(url) ==
    IF \E i \in 1..Len(url) : url[i] = "/"
    THEN LET i == CHOOSE k \in 1..Len(url) :
                      url[k] = "/" /\ \A j \in (k + 1)..Len(url) : url[j] # "/"
         IN  DropUntil(url, i + 1)
    ELSE url

\* C10 as stated: the extension is the text after the last '.' of the URL's
\* final path segment (a segment without '.' having none, or itself).
C10_ExtensionOfFinalSegment ==
    fn = "get_file_extension" =>
        IF HasDot(FinalSegment(arg))
        THEN out = AfterLastDot(FinalSegment(arg))
        ELSE out \in {<<>>, FinalSegment(arg)}

\* C10 amended: the extension is the text after the last '.' of the whole
\* URL, and the whole URL when it has no '.'; it is the text after the last
\* '.' of the final path segment whenever that segment contains a '.'.
C10_ExtensionOfWholeUrl ==
    fn = "get_file_extension" =>
        /\ ~HasDot(out)
        /\ EndsWith(arg, out)
        /\ IF HasDot(arg)
           THEN arg[Len(arg) - Len(out)] = "."
           ELSE out = arg
        /\ HasDot(FinalSegment(arg)) => out = AfterLastDot(FinalSegment(arg))

\* A URL whose last '.' lies before its final path segment: the extension
\* runs across the '/'.
C10_Witness ==
    /\ fn = "get_file_extension"
    /\ arg = <<"a", ".", "a", "/", "a">>
    /\ out = <<"a", "/", "a">>

=============================================================================
